---- MODULE Spec2Model ----
(***************************************************************************)
(* Real-time event distribution layer of the MEV dashboard.                *)
(*                                                                         *)
(* src/websocket/consumers.py defines three AsyncWebsocketConsumer classes *)
(* (DashboardConsumer, TransactionConsumer, MLTrainingConsumer).  Each     *)
(* connection joins one fixed channel-layer group in connect(), leaves it  *)
(* in disconnect(), and its *_update handler forwards a group message to   *)
(* the WebSocket as {"type": ..., "data": ...}.  src/api/views.py holds    *)
(* the data-ingestion endpoints, which are stubs answering 201.            *)
(*                                                                         *)
(* A session of the specification is one consumer instance (identified by  *)
(* its channel name); the Topic Registry is the channel layer's group      *)
(* table; publish is a group_send issued by a producer.                    *)
(***************************************************************************)
EXTENDS Integers, Sequences, FiniteSets, TLC

\* ---------------------------------------------------------------- bounds
NSess == 2        \* connections that may be opened in one run
NProd == 2        \* concurrent producers
MaxPub == 2       \* publish calls issued in one run
MaxStreak == 2    \* times in a row the same registry call is repeated

Sessions == 1..NSess
Producers == 1..NProd

\* ------------------------------------------------------- program constants
\* The routes of websocket_urlpatterns, one consumer class per route.
Routes == {"dashboard", "transactions", "ml-training"}

\* self.group_name as assigned by each consumer's connect().
GroupName(route) ==
    CASE route = "dashboard" -> "dashboard_updates"
      [] route = "transactions" -> "transaction_updates"
      [] route = "ml-training" -> "ml_training_updates"

Groups == {GroupName(r) : r \in Routes}

\* The channel-layer message type a producer addresses to a group: the name
\* of the handler method of the group's consumer class.
MessageType(group) ==
    CASE group = "dashboard_updates" -> "dashboard_update"
      [] group = "transaction_updates" -> "transaction_update"
      [] group = "ml_training_updates" -> "training_update"

None == "none"

\* ------------------------------------------------------------------ state
VARIABLES
    state,       \* state[s]: lifecycle of session s
    pc,          \* pc[s]: position of the consumer coroutine of s
    route,       \* route[s]: the route (consumer class) the connection came in on
    group_name,  \* group_name[s]: the attribute self.group_name
    groups,      \* groups[g]: channels in group g, in insertion order
    inbox,       \* inbox[s]: channel-layer messages waiting for s's handler
    attempts,    \* attempts[s]: frames s's handlers tried to send
    sent,        \* sent[s]: frames that reached the WebSocket client of s
    pubs,        \* pubs[i]: the i-th publish call (group_send)
    lastIngest,  \* the last request to an ingestion endpoint and its response
    regLog,      \* the last direct registry call (registry specification)
    \* setup.py
    system,      \* platform.system().lower()
    mainPc,      \* position of setup.main
    steps,       \* the steps main has entered, with what each reported
    commands,    \* the commands handed to subprocess.run, with their success
    result,      \* what main returned or raised
    \* api/models.py
    key,         \* key[o]: the attribute key of APIKey object o
    stored,      \* stored[o]: the key written to o's row by each save
    \* storage/models.py
    max_size_bytes,      \* StorageQuota.max_size_bytes
    current_size_bytes,  \* StorageQuota.current_size_bytes
    usage_percent,       \* the value read from the property usage_percent
    is_over_limit        \* the value read from the property is_over_limit

setupVars == <<system, mainPc, steps, commands, result>>
keyVars == <<key, stored>>
quotaVars == <<max_size_bytes, current_size_bytes, usage_percent, is_over_limit>>
otherVars == <<setupVars, keyVars, quotaVars>>
consumerVars == <<state, pc, route, group_name, groups, inbox, attempts, sent,
                  pubs, lastIngest, regLog>>

vars == <<state, pc, route, group_name, groups, inbox, attempts, sent,
          pubs, lastIngest, regLog, otherVars>>

\* ------------------------------------------------------- sequence helpers
RECURSIVE Remove(_, _)
Remove(q, x) ==
    IF q = <<>> THEN <<>>
    ELSE IF Head(q) = x THEN Remove(Tail(q), x)
    ELSE <<Head(q)>> \o Remove(Tail(q), x)

Contains(q, x) == \E i \in 1..Len(q) : q[i] = x

IsPrefix(p, q) == Len(p) <= Len(q) /\ \A i \in 1..Len(p) : p[i] = q[i]

\* ----------------------------------------------------- the group registry
\* A group_add that appends without looking for the channel.
GroupAddAlways(reg, g, c) == [reg EXCEPT ![g] = Append(@, c)]

\* channel_layer.group_add(group, channel): adds the channel; returns
\* normally when the channel is already a member (membership unchanged).
GroupAdd(reg, g, c) ==
    IF Contains(reg[g], c) THEN reg
    ELSE [reg EXCEPT ![g] = Append(@, c)]

\* The value the awaited group_add call yields: it never raises.
GroupAddResult(reg, g, c) == "ok"

\* channel_layer.group_discard(group, channel): removes the channel if it
\* is a member and does nothing otherwise.
GroupDiscard(reg, g, c) == [reg EXCEPT ![g] = Remove(@, c)]

\* A removal that raises when the channel is not a member (remove for discard).
GroupDiscardResultRemove(reg, g, c) ==
    IF Contains(reg[g], c) THEN "ok" ELSE "KeyError"

\* The value the awaited group_discard call yields: it never raises.
GroupDiscardResult(reg, g, c) == "ok"

\* subscribers(topic): the members of the group at one instant.
Subscribers(reg, g) == reg[g]

TopicsOf(reg, c) == {g \in Groups : Contains(reg[g], c)}

InRegistry(c) == TopicsOf(groups, c) # {}

\* ------------------------------------------------------- handler frames
\* json.dumps({'type': ..., 'data': ...}): the frame is the pair of fields
\* the client decodes.
DashboardFrame(event) == [type |-> event.type, data |-> event.data]

TransactionFrame(event) == [type |-> "transaction", data |-> event.data]

TrainingFrame(event) == [type |-> "training_progress", data |-> event.data]

\* The handler the consumer of route r runs for a message.
HandlerFrame(r, event) ==
    CASE r = "dashboard" -> DashboardFrame(event)
      [] r = "transactions" -> TransactionFrame(event)
      [] r = "ml-training" -> TrainingFrame(event)

\* ------------------------------------------------------------------- Init
NoIngest == [endpoint |-> None, body |-> None, status |-> 0, closed |-> {}]
NoRegCall == [op |-> None, group |-> None, chan |-> 0, before |-> None,
              result |-> None, streak |-> 0]

EmptyRegistry == [g \in Groups |-> <<>>]

\* No connection, no publish, no request yet.
ConsumersInit ==
    /\ state = [s \in Sessions |-> None]
    /\ pc = [s \in Sessions |-> None]
    /\ route = [s \in Sessions |-> None]
    /\ group_name = [s \in Sessions |-> None]
    /\ groups = EmptyRegistry
    /\ inbox = [s \in Sessions |-> <<>>]
    /\ attempts = [s \in Sessions |-> <<>>]
    /\ sent = [s \in Sessions |-> <<>>]
    /\ pubs = <<>>
    /\ lastIngest = NoIngest
    /\ regLog = NoRegCall

\* setup.py not started.
SetupIdle ==
    /\ system = None /\ mainPc = None /\ steps = <<>> /\ commands = <<>>
    /\ result = None

\* No APIKey object.
NKeys == 2        \* APIKey objects
Objects == 1..NKeys
KeysIdle ==
    /\ key = [o \in Objects |-> None]
    /\ stored = [o \in Objects |-> <<>>]

\* No StorageQuota read.
NotRead == [num |-> 0, den |-> 0]
QuotaIdle ==
    /\ max_size_bytes = 0 /\ current_size_bytes = 0
    /\ usage_percent = NotRead /\ is_over_limit = FALSE

Init == ConsumersInit /\ SetupIdle /\ KeysIdle /\ QuotaIdle

\* ------------------------------------------------- connection lifecycle
\* A router that hands the channel name of a crashed consumer, still in its
\* group, to a new connection.
NewConnectionReusesSlot(s, r) ==
    /\ state[s] = None \/ pc[s] = "crashed"
    /\ \A t \in Sessions : t < s => state[t] # None
    /\ state' = [state EXCEPT ![s] = "Connecting"]
    /\ pc' = [pc EXCEPT ![s] = "connect"]
    /\ route' = [route EXCEPT ![s] = r]
    /\ UNCHANGED <<group_name, groups, inbox, attempts, sent, pubs,
                   lastIngest, regLog, otherVars>>

\* A client opens a WebSocket on route r: the router instantiates the
\* consumer class of that route with a fresh channel name.
NewConnection(s, r) ==
    /\ state[s] = None
    /\ \A t \in Sessions : t < s => state[t] # None
    /\ state' = [state EXCEPT ![s] = "Connecting"]
    /\ pc' = [pc EXCEPT ![s] = "connect"]
    /\ route' = [route EXCEPT ![s] = r]
    /\ UNCHANGED <<group_name, groups, inbox, attempts, sent, pubs,
                   lastIngest, regLog, otherVars>>

\* A connect() that joins the dashboard group whatever its own group_name.
ConnectGroupAddWrongGroup(s) ==
    /\ pc[s] = "connect"
    /\ group_name' = [group_name EXCEPT ![s] = GroupName(route[s])]
    /\ groups' = GroupAdd(groups, "dashboard_updates", s)
    /\ pc' = [pc EXCEPT ![s] = "accept"]
    /\ UNCHANGED <<state, route, inbox, attempts, sent, pubs,
                   lastIngest, regLog, otherVars>>

\* A connect() whose group_add waits until no send is in flight anywhere.
ConnectGroupAddWaitsForSend(s) ==
    /\ pc[s] = "connect"
    /\ \A t \in Sessions : pc[t] # "sending"
    /\ group_name' = [group_name EXCEPT ![s] = GroupName(route[s])]
    /\ groups' = GroupAdd(groups, GroupName(route[s]), s)
    /\ pc' = [pc EXCEPT ![s] = "accept"]
    /\ UNCHANGED <<state, route, inbox, attempts, sent, pubs,
                   lastIngest, regLog, otherVars>>

\* connect(), up to its first await: set self.group_name and join the group.
ConnectGroupAdd(s) ==
    /\ pc[s] = "connect"
    /\ group_name' = [group_name EXCEPT ![s] = GroupName(route[s])]
    /\ groups' = GroupAdd(groups, GroupName(route[s]), s)
    /\ pc' = [pc EXCEPT ![s] = "accept"]
    /\ UNCHANGED <<state, route, inbox, attempts, sent, pubs,
                   lastIngest, regLog, otherVars>>

\* An accept() that reopens a session whose transport is already gone.
ConnectAcceptAlwaysOpens(s) ==
    /\ pc[s] = "accept"
    /\ state' = [state EXCEPT ![s] = "Open"]
    /\ pc' = [pc EXCEPT ![s] = "idle"]
    /\ UNCHANGED <<route, group_name, groups, inbox, attempts, sent, pubs,
                   lastIngest, regLog, otherVars>>

\* A connect() that replays to the new session an event published to its
\* group before it joined.
ConnectAcceptReplays(s) ==
    /\ pc[s] = "accept"
    /\ state' = [state EXCEPT ![s] = IF @ = "Connecting" THEN "Open" ELSE @]
    /\ pc' = [pc EXCEPT ![s] = "idle"]
    /\ LET missed == {i \in 1..Len(pubs) :
                         /\ pubs[i].group = group_name[s]
                         /\ ~Contains(pubs[i].snap, s)}
       IN inbox' = IF missed = {} THEN inbox
                   ELSE LET i == CHOOSE j \in missed : TRUE
                        IN [inbox EXCEPT ![s] =
                               Append(@, [type |-> pubs[i].type, data |-> pubs[i].data])]
    /\ UNCHANGED <<route, group_name, groups, attempts, sent, pubs,
                   lastIngest, regLog, otherVars>>

\* connect(), second await: self.accept() completes the handshake.  When
\* the client has already gone the accept has no effect on the lifecycle.
ConnectAccept(s) ==
    /\ pc[s] = "accept"
    /\ state' = [state EXCEPT ![s] = IF @ = "Connecting" THEN "Open" ELSE @]
    /\ pc' = [pc EXCEPT ![s] = "idle"]
    /\ UNCHANGED <<route, group_name, groups, inbox, attempts, sent, pubs,
                   lastIngest, regLog, otherVars>>

\* The transport reports teardown (the client went away); the disconnect
\* message is queued for the consumer.
Teardown(s) ==
    /\ state[s] \in {"Connecting", "Open"}
    /\ state' = [state EXCEPT ![s] = "Closing"]
    /\ UNCHANGED <<pc, route, group_name, groups, inbox, attempts, sent,
                   pubs, lastIngest, regLog, otherVars>>

\* A disconnect() after which the consumer keeps dispatching messages.
DisconnectEffectStillRunning(s) ==
    [groups |-> GroupDiscard(groups, group_name[s], s),
     state |-> "Closed", pc |-> "idle"]

\* A disconnect() that forgets to leave the group.
DisconnectEffectNoDiscard(s) ==
    [groups |-> groups, state |-> "Closed", pc |-> "stopped"]

\* A disconnect() that discards the channel from the dashboard group
\* whatever group its connect() joined.
DisconnectEffectOtherGroup(s) ==
    [groups |-> GroupDiscard(groups, "dashboard_updates", s),
     state |-> "Closed", pc |-> "stopped"]

\* What disconnect() leaves of the consumer: it has left its group and the
\* consumer is stopped.
DisconnectEffect(s) ==
    [groups |-> GroupDiscard(groups, group_name[s], s),
     state |-> "Closed", pc |-> "stopped"]

\* disconnect(close_code): runs once the consumer is idle and the
\* disconnect message is dispatched.
Disconnect(s) ==
    /\ pc[s] = "idle"
    /\ state[s] = "Closing"
    /\ groups' = DisconnectEffect(s).groups
    /\ state' = [state EXCEPT ![s] = DisconnectEffect(s).state]
    /\ pc' = [pc EXCEPT ![s] = DisconnectEffect(s).pc]
    /\ UNCHANGED <<route, group_name, inbox, attempts, sent, pubs,
                   lastIngest, regLog, otherVars>>

\* ------------------------------------------------------- event handlers
\* A dispatch that takes the newest queued message first.
NextMessageNewest(q) == q[Len(q)]

\* The consumer dispatches its queued messages one at a time, oldest first.
NextMessage(q) == Head(q)

\* A handler that sends its frame twice.
HandlerSendsTwice(frame) == <<frame, frame>>

\* await self.send(text_data=...): the handler sends its frame once.
HandlerSends(frame) == <<frame>>

\* A send that raises and takes down every idle consumer of the same route.
CrashEffectWholeGroup(s, outcome) ==
    [t \in Sessions |->
        IF outcome = "raised" /\ route[t] = route[s] /\ pc[t] = "idle"
        THEN "crashed" ELSE pc[t]]

\* A send that raises ends the consumer that made it, and only that one.
CrashEffect(s, outcome) ==
    [pc EXCEPT ![s] = IF outcome = "raised" THEN "crashed" ELSE @]

\* A handler that throws away whatever else is queued for its session.
DeliverDropsQueue(s) ==
    /\ pc[s] = "idle"
    /\ state[s] = "Open"
    /\ inbox[s] # <<>>
    /\ LET ev == NextMessage(inbox[s])
           frame == HandlerFrame(route[s], ev)
       IN /\ inbox' = [inbox EXCEPT ![s] = <<>>]
          /\ attempts' = [attempts EXCEPT ![s] = @ \o HandlerSends(frame)]
          /\ sent' = [sent EXCEPT ![s] = @ \o HandlerSends(frame)]
    /\ UNCHANGED <<state, pc, route, group_name, groups, pubs,
                   lastIngest, regLog, otherVars>>

\* dashboard_update / transaction_update / training_update on an open
\* socket: the frame built by the handler reaches the client.
Deliver(s) ==
    /\ pc[s] = "idle"
    /\ state[s] = "Open"
    /\ inbox[s] # <<>>
    /\ LET ev == NextMessage(inbox[s])
           frame == HandlerFrame(route[s], ev)
       IN /\ inbox' = [inbox EXCEPT ![s] = Remove(@, ev)]
          /\ attempts' = [attempts EXCEPT ![s] = @ \o HandlerSends(frame)]
          /\ sent' = [sent EXCEPT ![s] = @ \o HandlerSends(frame)]
    /\ UNCHANGED <<state, pc, route, group_name, groups, pubs,
                   lastIngest, regLog, otherVars>>

\* The same handlers when the transport is already torn down (or the
\* consumer was stopped and is wrongly still dispatching): self.send cannot
\* reach the client.  Depending on the server the frame is dropped silently
\* or self.send raises, which ends the consumer without running disconnect().
SendOutcomes == {"dropped", "raised"}

\* A handler that keeps the event queued when its send was dropped, and so
\* tries it again.
DeliverFailedRetries(s, outcome) ==
    /\ pc[s] = "idle"
    /\ state[s] # "Open"
    /\ inbox[s] # <<>>
    /\ LET ev == NextMessage(inbox[s])
           frame == HandlerFrame(route[s], ev)
       IN /\ inbox' = IF outcome = "dropped" THEN inbox
                       ELSE [inbox EXCEPT ![s] = Remove(@, ev)]
          /\ attempts' = [attempts EXCEPT ![s] = @ \o HandlerSends(frame)]
    /\ pc' = CrashEffect(s, outcome)
    /\ UNCHANGED <<state, route, group_name, groups, sent, pubs,
                   lastIngest, regLog, otherVars>>

\* The handlers of a session whose transport is gone: see SendOutcomes.
DeliverFailed(s, outcome) ==
    /\ pc[s] = "idle"
    /\ state[s] # "Open"
    /\ inbox[s] # <<>>
    /\ LET ev == NextMessage(inbox[s])
           frame == HandlerFrame(route[s], ev)
       IN /\ inbox' = [inbox EXCEPT ![s] = Remove(@, ev)]
          /\ attempts' = [attempts EXCEPT ![s] = @ \o HandlerSends(frame)]
    /\ pc' = CrashEffect(s, outcome)
    /\ UNCHANGED <<state, route, group_name, groups, sent, pubs,
                   lastIngest, regLog, otherVars>>

\* ------------------------------------------ handlers, await by await
\* The same handlers with the suspension of "await self.send(...)" made
\* visible: the handler builds its frame and hands it to the transport
\* (SendStart), and is resumed when the transport has taken the frame
\* (SendComplete) or cannot take it (SendFail).  The code sets no timeout
\* on the send: only the transport ends the suspension.

\* A handler that waits while a send to another session of its group is
\* in flight.
SendStartWaitsForGroup(s) ==
    /\ pc[s] = "idle"
    /\ inbox[s] # <<>>
    /\ \A t \in Sessions :
          (t # s /\ group_name[t] = group_name[s]) => pc[t] # "sending"
    /\ LET ev == NextMessage(inbox[s])
           frame == HandlerFrame(route[s], ev)
       IN /\ inbox' = [inbox EXCEPT ![s] = Remove(@, ev)]
          /\ attempts' = [attempts EXCEPT ![s] = @ \o HandlerSends(frame)]
    /\ pc' = [pc EXCEPT ![s] = "sending"]
    /\ UNCHANGED <<state, route, group_name, groups, sent, pubs,
                   lastIngest, regLog, otherVars>>

SendStart(s) ==
    /\ pc[s] = "idle"
    /\ inbox[s] # <<>>
    /\ LET ev == NextMessage(inbox[s])
           frame == HandlerFrame(route[s], ev)
       IN /\ inbox' = [inbox EXCEPT ![s] = Remove(@, ev)]
          /\ attempts' = [attempts EXCEPT ![s] = @ \o HandlerSends(frame)]
    /\ pc' = [pc EXCEPT ![s] = "sending"]
    /\ UNCHANGED <<state, route, group_name, groups, sent, pubs,
                   lastIngest, regLog, otherVars>>

\* The frame of the suspended send.
InFlight(s) == attempts[s][Len(attempts[s])]

SendComplete(s) ==
    /\ pc[s] = "sending"
    /\ state[s] = "Open"
    /\ sent' = [sent EXCEPT ![s] = Append(@, InFlight(s))]
    /\ pc' = [pc EXCEPT ![s] = "idle"]
    /\ UNCHANGED <<state, route, group_name, groups, inbox, attempts, pubs,
                   lastIngest, regLog, otherVars>>

SendFail(s, outcome) ==
    /\ pc[s] = "sending"
    /\ state[s] # "Open"
    /\ pc' = [CrashEffect(s, outcome) EXCEPT
                 ![s] = IF @ = "sending" THEN "idle" ELSE @]
    /\ UNCHANGED <<state, route, group_name, groups, inbox, attempts, sent,
                   pubs, lastIngest, regLog, otherVars>>

\* ---------------------------------------------------------------- publish
\* publish(event) has returned once every session of its snapshot was visited.
Returned(i) == Len(pubs[i].visited) = Len(pubs[i].snap)

Busy(p) == \E i \in 1..Len(pubs) : pubs[i].prod = p /\ ~Returned(i)

\* publish(event), step 1: take the snapshot of the topic's subscribers.
PublishStart(p, g) ==
    /\ Len(pubs) < MaxPub
    /\ ~Busy(p)
    /\ \A q \in Producers : q < p => Busy(q)
    /\ pubs' = Append(pubs, [prod |-> p, group |-> g, type |-> MessageType(g),
                             data |-> Len(pubs) + 1,
                             snap |-> Subscribers(groups, g),
                             visited |-> <<>>])
    /\ UNCHANGED <<state, pc, route, group_name, groups, inbox, attempts,
                   sent, lastIngest, regLog, otherVars>>

\* A publish that walks the live group instead of its snapshot.
PublishStepLiveView(i) ==
    /\ i \in 1..Len(pubs)
    /\ ~Returned(i)
    /\ LET live == groups[pubs[i].group]
           k == Len(pubs[i].visited) + 1
           target == IF k <= Len(live) THEN live[k] ELSE pubs[i].snap[k]
       IN /\ inbox' = [inbox EXCEPT ![target] =
                          Append(@, [type |-> pubs[i].type, data |-> pubs[i].data])]
          /\ pubs' = [pubs EXCEPT ![i].visited = Append(@, target)]
    /\ UNCHANGED <<state, pc, route, group_name, groups, attempts, sent,
                   lastIngest, regLog, otherVars>>

\* publish(event), step 2: hand the event to the next session of the
\* snapshot (the message is queued on that session's channel).
PublishStep(i) ==
    /\ i \in 1..Len(pubs)
    /\ ~Returned(i)
    /\ LET target == pubs[i].snap[Len(pubs[i].visited) + 1]
       IN /\ inbox' = [inbox EXCEPT ![target] =
                          Append(@, [type |-> pubs[i].type, data |-> pubs[i].data])]
          /\ pubs' = [pubs EXCEPT ![i].visited = Append(@, target)]
    /\ UNCHANGED <<state, pc, route, group_name, groups, attempts, sent,
                   lastIngest, regLog, otherVars>>

\* -------------------------------------------------------------- ingestion
\* Request bodies posted to the ingestion endpoints.
Null == "null"
RawEvents == {[topic |-> "transactions", event_type |-> "transaction", payload |-> 7],
              [topic |-> "", event_type |-> "transaction", payload |-> 7],
              [topic |-> "transactions", event_type |-> Null, payload |-> 7]}

Endpoints == {"ingest_transaction", "ingest_opportunity", "ingest_metrics"}

\* A body without a topic or without an event type.
Malformed(body) == body.topic = "" \/ body.event_type = Null

HTTP_201_CREATED == 201

\* The sessions of a topic (the route they came in on) in a lifecycle state.
SubscribersOfTopic(topic, st) ==
    {s \in Sessions : route[s] = topic /\ state[s] = st}

\* An endpoint that answers with an error when nobody is listening.
IngestStatusNeedsSubscriber(endpoint, body) ==
    IF SubscribersOfTopic(body.topic, "Open") = {} THEN 503 ELSE HTTP_201_CREATED

\* An endpoint that reports a subscriber's crashed consumer to the producer.
IngestStatusFailsAfterCrash(endpoint, body) ==
    IF \E s \in Sessions : pc[s] = "crashed" THEN 500 ELSE HTTP_201_CREATED

\* An endpoint that answers a well-formed event with an error once a
\* malformed one was posted before it.
IngestStatusAfterMalformed(endpoint, body) ==
    IF lastIngest.endpoint # None /\ Malformed(lastIngest.body)
    THEN 400 ELSE HTTP_201_CREATED

\* DataIngestionView.ingest_transaction / ingest_opportunity /
\* ingest_metrics: each returns Response(..., status=201) and does nothing
\* else.
IngestStatus(endpoint, body) == HTTP_201_CREATED

IngestForwards(endpoint, body) ==
    /\ lastIngest' = [endpoint |-> endpoint, body |-> body,
                      status |-> IngestStatus(endpoint, body),
                      closed |-> SubscribersOfTopic(body.topic, "Closed")]
    /\ inbox' = [s \in Sessions |->
                    IF s \in SubscribersOfTopic(body.topic, "Open")
                    THEN Append(inbox[s], [type |-> body.event_type, data |-> 0])
                    ELSE inbox[s]]
    /\ UNCHANGED <<state, pc, route, group_name, groups, attempts,
                   sent, pubs, regLog, otherVars>>

Ingest(endpoint, body) ==
    /\ lastIngest' = [endpoint |-> endpoint, body |-> body,
                      status |-> IngestStatus(endpoint, body),
                      closed |-> SubscribersOfTopic(body.topic, "Closed")]
    /\ UNCHANGED <<state, pc, route, group_name, groups, inbox, attempts,
                   sent, pubs, regLog, otherVars>>

\* ------------------------------------------------------------------- Next
Next ==
    \/ \E s \in Sessions, r \in Routes : NewConnection(s, r)
    \/ \E s \in Sessions : ConnectGroupAdd(s)
    \/ \E s \in Sessions : ConnectAccept(s)
    \/ \E s \in Sessions : Teardown(s)
    \/ \E s \in Sessions : Disconnect(s)
    \/ \E s \in Sessions : Deliver(s)
    \/ \E s \in Sessions, o \in SendOutcomes : DeliverFailed(s, o)
    \/ \E p \in Producers, g \in Groups : PublishStart(p, g)
    \/ \E i \in 1..MaxPub : PublishStep(i)
    \/ \E e \in Endpoints, b \in RawEvents : Ingest(e, b)

Spec == Init /\ [][Next]_vars

\* The consumers with their sends suspended and resumed (no ingestion:
\* the endpoints touch nothing of the consumers).
NextSend ==
    \/ \E s \in Sessions, r \in Routes : NewConnection(s, r)
    \/ \E s \in Sessions : ConnectGroupAdd(s)
    \/ \E s \in Sessions : ConnectAccept(s)
    \/ \E s \in Sessions : Teardown(s)
    \/ \E s \in Sessions : Disconnect(s)
    \/ \E s \in Sessions : SendStart(s)
    \/ \E s \in Sessions : SendComplete(s)
    \/ \E s \in Sessions, o \in SendOutcomes : SendFail(s, o)
    \/ \E p \in Producers, g \in Groups : PublishStart(p, g)
    \/ \E i \in 1..MaxPub : PublishStep(i)

SendSpec == Init /\ [][NextSend]_vars

\* What a consumer does by itself once the event loop runs it.
ConsumerStep(s) ==
    ConnectGroupAdd(s) \/ ConnectAccept(s) \/ SendStart(s) \/ Disconnect(s)

\* The event loop keeps running every task that can run: a publish that
\* has started goes on, and so does a consumer that is not suspended; a
\* send on a connection that is known to be gone is ended at once.  A live
\* transport owes nothing: the send to a client that neither reads nor
\* goes away may never be resumed.
FairSendSpec ==
    /\ SendSpec
    /\ \A i \in 1..MaxPub : WF_vars(PublishStep(i))
    /\ \A s \in Sessions : WF_vars(ConsumerStep(s))
    /\ \A s \in Sessions : WF_vars(\E o \in SendOutcomes : SendFail(s, o))

\* ------------------------------------------- the registry, call by call
\* register(topic, session) and unregister(topic, session_id) applied
\* directly to the group table, for any topic and any session id.
Streak(op, g, c) ==
    IF regLog.op = op /\ regLog.group = g /\ regLog.chan = c
    THEN regLog.streak + 1 ELSE 1

RegisterCall(g, c) ==
    /\ Streak("register", g, c) <= MaxStreak
    /\ groups' = GroupAdd(groups, g, c)
    /\ regLog' = [op |-> "register", group |-> g, chan |-> c, before |-> groups,
                  result |-> GroupAddResult(groups, g, c),
                  streak |-> Streak("register", g, c)]
    /\ UNCHANGED <<state, pc, route, group_name, inbox, attempts, sent, pubs,
                   lastIngest, otherVars>>

UnregisterCall(g, c) ==
    /\ Streak("unregister", g, c) <= MaxStreak
    /\ groups' = GroupDiscard(groups, g, c)
    /\ regLog' = [op |-> "unregister", group |-> g, chan |-> c, before |-> groups,
                  result |-> GroupDiscardResult(groups, g, c),
                  streak |-> Streak("unregister", g, c)]
    /\ UNCHANGED <<state, pc, route, group_name, inbox, attempts, sent, pubs,
                   lastIngest, otherVars>>

NextRegistry ==
    \/ \E g \in Groups, c \in Sessions : RegisterCall(g, c)
    \/ \E g \in Groups, c \in Sessions : UnregisterCall(g, c)

RegistrySpec == Init /\ [][NextRegistry]_vars

\* ================================================================ setup.py
\* platform.system().lower(): the two systems main knows and one it does not.
Systems == {"windows", "linux", "darwin"}

Reported(ok) == IF ok THEN "ok" ELSE "failed"

\* run_command(command, shell=False): runs the command and returns whether
\* its return code was 0 (False when subprocess.run raised).
RunCommand(cmd, ok) == [cmd |-> cmd, ok |-> ok]

\* The parameters run_command accepts.
RunCommandParameters == {"command", "shell"}

\* The three database commands of setup_postgresql; their failures are
\* printed and ignored.
DatabaseCommands(oks) ==
    <<RunCommand("create database", oks[1]),
      RunCommand("create user", oks[2]),
      RunCommand("grant privileges", oks[3])>>

\* setup_postgresql(): the commands it runs and what it returns.
PostgresqlCommands(sys, found, oks) ==
    IF sys = "windows"
    THEN <<RunCommand("where psql", found)>>
            \o (IF found THEN DatabaseCommands(oks) ELSE <<>>)
    ELSE IF sys = "linux" THEN DatabaseCommands(oks)
    ELSE <<>>

PostgresqlResult(sys, found) ==
    IF sys = "windows" THEN found ELSE sys = "linux"

\* setup_redis(): the commands it runs and what it returns.
RedisCommands(sys, found, oks) ==
    IF sys = "windows" THEN <<RunCommand("where redis-server", found)>>
    ELSE IF sys = "linux"
    THEN <<RunCommand("systemctl is-active redis", found)>>
            \o (IF found THEN <<>>
                ELSE <<RunCommand("systemctl start redis", oks[1]),
                       RunCommand("systemctl enable redis", oks[2])>>)
    ELSE <<>>

RedisResult(sys, found) == IF sys = "windows" THEN found ELSE TRUE

\* A main that gives up when the PostgreSQL setup reports a failure.
AfterPostgresqlStops(ok) == IF ok THEN "redis" ELSE "returned"

\* main after setup_postgresql(): a failure is printed, the run goes on.
AfterPostgresql(ok) == "redis"

\* main after setup_redis(): a failure is printed, the run goes on.
AfterRedis(ok) == "migrate"

Outcomes == [1..3 -> BOOLEAN]

SetupPostgresql ==
    /\ mainPc = "postgresql"
    /\ \E found \in BOOLEAN, oks \in Outcomes :
          /\ commands' = commands \o PostgresqlCommands(system, found, oks)
          /\ steps' = Append(steps, [step |-> "postgresql",
                                     reported |-> Reported(PostgresqlResult(system, found))])
          /\ mainPc' = AfterPostgresql(PostgresqlResult(system, found))
    /\ UNCHANGED <<system, result, consumerVars, keyVars, quotaVars>>

SetupRedis ==
    /\ mainPc = "redis"
    /\ \E found \in BOOLEAN, oks \in Outcomes :
          /\ commands' = commands \o RedisCommands(system, found, oks)
          /\ steps' = Append(steps, [step |-> "redis",
                                     reported |-> Reported(RedisResult(system, found))])
          /\ mainPc' = AfterRedis(RedisResult(system, found))
    /\ UNCHANGED <<system, result, consumerVars, keyVars, quotaVars>>

\* main, "manage.py migrate": a failure makes main return False.
Migrate(ok) ==
    /\ mainPc = "migrate"
    /\ commands' = Append(commands, RunCommand("migrate", ok))
    /\ steps' = Append(steps, [step |-> "migrate", reported |-> Reported(ok)])
    /\ mainPc' = IF ok THEN "superuser" ELSE "returned"
    /\ result' = IF ok THEN result ELSE "False"
    /\ UNCHANGED <<system, consumerVars, keyVars, quotaVars>>

\* main, superuser creation and the rest: run_command is called with the
\* keyword env.  A run_command that accepts it runs createsuperuser,
\* tolerates its failure and main goes on to "Setup completed"; one that
\* does not accept it raises TypeError out of main.
CreateSuperuser(ok) ==
    /\ mainPc = "superuser"
    /\ IF "env" \in RunCommandParameters
       THEN /\ commands' = Append(commands, RunCommand("createsuperuser", ok))
            /\ steps' = steps \o <<[step |-> "superuser", reported |-> Reported(ok)],
                                    [step |-> "completed", reported |-> "ok"]>>
            /\ mainPc' = "returned"
            /\ result' = "returns None"
       ELSE /\ commands' = commands
            /\ steps' = Append(steps, [step |-> "superuser", reported |-> "raised"])
            /\ mainPc' = "raised"
            /\ result' = "TypeError"
    /\ UNCHANGED <<system, consumerVars, keyVars, quotaVars>>

SetupInit ==
    /\ ConsumersInit /\ KeysIdle /\ QuotaIdle
    /\ system \in Systems
    /\ mainPc = "postgresql"
    /\ steps = <<>> /\ commands = <<>>
    /\ result = None

NextSetup ==
    \/ SetupPostgresql
    \/ SetupRedis
    \/ \E ok \in BOOLEAN : Migrate(ok)
    \/ \E ok \in BOOLEAN : CreateSuperuser(ok)

SetupSpec == SetupInit /\ [][NextSetup]_vars

\* ======================================================= api/models.py
MaxSaves == 2     \* saves of one APIKey object

\* Keys a caller passes to APIKey(...), and values of secrets.token_urlsafe.
CallerKeys == {"caller-1", "caller-2"}
Tokens == {"token-1", "token-2"}

\* A save that always generates a new key.
SaveKeyAlwaysNew(k, token) == token

\* APIKey.save: "if not self.key: self.key = secrets.token_urlsafe(64)".
SaveKey(k, token) == IF k = "" THEN token ELSE k

\* The column key is unique: the rows of the other objects.
KeyTaken(o, k) ==
    \E other \in Objects \ {o} :
        stored[other] # <<>> /\ stored[other][Len(stored[other])] = k

\* APIKey(key=k): the caller gives a key or leaves the field empty.
NewAPIKey(o, k) ==
    /\ key[o] = None
    /\ \A other \in Objects : other < o => key[other] # None
    /\ key' = [key EXCEPT ![o] = k]
    /\ UNCHANGED <<stored, consumerVars, setupVars, quotaVars>>

\* obj.save(), from code or from the admin (where key is read-only):
\* the key is generated if empty, then the row is written unless the
\* unique column refuses it.
Save(o, token) ==
    /\ key[o] # None
    /\ Len(stored[o]) < MaxSaves
    /\ key' = [key EXCEPT ![o] = SaveKey(@, token)]
    /\ stored' = IF KeyTaken(o, key'[o]) THEN stored
                 ELSE [stored EXCEPT ![o] = Append(@, key'[o])]
    /\ UNCHANGED <<consumerVars, setupVars, quotaVars>>

KeysInit == ConsumersInit /\ SetupIdle /\ KeysIdle /\ QuotaIdle

NextKeys ==
    \/ \E o \in Objects, k \in CallerKeys \cup {""} : NewAPIKey(o, k)
    \/ \E o \in Objects, token \in Tokens : Save(o, token)

APIKeySpec == KeysInit /\ [][NextKeys]_vars

\* =================================================== storage/models.py
MaxBytes == 7     \* largest size of a quota, in bytes

\* A float that is the quotient of two integers, kept exact.
Ratio(num, den) == [num |-> num, den |-> den]

GreaterThan(r, n) == r.num > n * r.den

\* StorageQuota.usage_percent: 0.0 when max_size_bytes is 0, otherwise
\* (current_size_bytes / max_size_bytes) * 100.
UsagePercent(cur, max) ==
    IF max = 0 THEN Ratio(0, 1) ELSE Ratio(cur * 100, max)

\* StorageQuota.is_over_limit: current_size_bytes > max_size_bytes.
IsOverLimit(cur, max) == cur > max

\* Both properties of one quota are read.
ReadQuota ==
    /\ usage_percent = NotRead
    /\ usage_percent' = UsagePercent(current_size_bytes, max_size_bytes)
    /\ is_over_limit' = IsOverLimit(current_size_bytes, max_size_bytes)
    /\ UNCHANGED <<max_size_bytes, current_size_bytes, consumerVars,
                   setupVars, keyVars>>

QuotaInit ==
    /\ ConsumersInit /\ SetupIdle /\ KeysIdle
    /\ max_size_bytes \in 0..MaxBytes
    /\ current_size_bytes \in 0..MaxBytes
    /\ usage_percent = NotRead /\ is_over_limit = FALSE

NextQuota == ReadQuota

QuotaSpec == QuotaInit /\ [][NextQuota]_vars

\* ----------------------------------------------------- claim vocabulary
\* Events and frames carry the number of their publish call as payload.
HasEvent(q, i) == \E k \in 1..Len(q) : q[k].data = i

Occurrences(q, i) == Cardinality({k \in 1..Len(q) : q[k].data = i})

Pos(q, i) == CHOOSE k \in 1..Len(q) : q[k].data = i

Calls == 1..Len(pubs)

InSnapshot(i, s) == Contains(pubs[i].snap, s)

Visited(i, s) == Contains(pubs[i].visited, s)

\* Session s is through with the event of publish i: its handler ran, or
\* its consumer has ended and will never run it.
Settled(i, s) == ~HasEvent(inbox[s], i) \/ pc[s] \in {"stopped", "crashed"}

\* A send of publish i's event was attempted on f and did not reach the client.
FailedSend(i, f) == HasEvent(attempts[f], i) /\ ~HasEvent(sent[f], i)

\* ------------------------------------------------------------------- C1
\* C1 (as stated): once a publish call has returned and a session of its
\* snapshot is through with the event, that session received the event
\* exactly once.
C1_ExactlyOnceEach ==
    \A i \in Calls : \A s \in Sessions :
        (Returned(i) /\ InSnapshot(i, s) /\ Settled(i, s))
            => Occurrences(sent[s], i) = 1

\* C1 (amended): a publish call visits the sessions of its snapshot in
\* snapshot order, hands each the event at most once, no session receives
\* it more than once, and a session that is Open once the event has left
\* its queue has received it exactly once.
C1_AtMostOnceInSnapshotOrder ==
    \A i \in Calls :
        /\ IsPrefix(pubs[i].visited, pubs[i].snap)
        /\ \A s \in Sessions :
            /\ Occurrences(inbox[s], i) + Occurrences(attempts[s], i) <= 1
            /\ Occurrences(sent[s], i) <= 1
            /\ (Visited(i, s) /\ state[s] = "Open" /\ ~HasEvent(inbox[s], i))
                  => Occurrences(sent[s], i) = 1

\* Two distinct sessions of one snapshot have both received the event.
C1_Witness ==
    \E i \in Calls : \E s1, s2 \in Sessions :
        /\ s1 # s2 /\ InSnapshot(i, s1) /\ InSnapshot(i, s2) /\ Returned(i)
        /\ Occurrences(sent[s1], i) = 1 /\ Occurrences(sent[s2], i) = 1

\* ------------------------------------------------------------------- C2
\* C2: when one producer publishes to one topic twice in a row, a session
\* that received both events received the first before the second.
C2_FifoPerProducer ==
    \A s \in Sessions : \A i, j \in Calls :
        (/\ i < j
         /\ pubs[i].prod = pubs[j].prod
         /\ pubs[i].group = pubs[j].group
         /\ HasEvent(sent[s], i) /\ HasEvent(sent[s], j))
            => Pos(sent[s], i) < Pos(sent[s], j)

\* One session has received both events of one producer while another
\* session of the topic went away.
C2_Witness ==
    \E s, t \in Sessions : \E i, j \in Calls :
        /\ i < j /\ pubs[i].prod = pubs[j].prod
        /\ HasEvent(sent[s], i) /\ HasEvent(sent[s], j)
        /\ t # s /\ route[t] = route[s] /\ state[t] = "Closed"

\* ------------------------------------------------------------------- C3
\* C3: a session whose send failed does not keep a healthy session of the
\* same snapshot from the event: the healthy session has received it, or
\* holds it in its queue with its consumer running.
C3_Isolation ==
    \A i \in Calls : \A f, h \in Sessions :
        (/\ f # h /\ InSnapshot(i, f) /\ Visited(i, h)
         /\ FailedSend(i, f) /\ state[h] = "Open")
            => \/ Occurrences(sent[h], i) = 1
               \/ HasEvent(inbox[h], i) /\ pc[h] = "idle"

\* The failing session comes first in the snapshot and the healthy session
\* after it has still received the event.
C3_Witness ==
    \E i \in Calls : \E f, h \in Sessions :
        /\ Len(pubs[i].snap) >= 2
        /\ pubs[i].snap[1] = f /\ pubs[i].snap[2] = h
        /\ FailedSend(i, f) /\ pc[f] = "crashed"
        /\ HasEvent(sent[h], i)

\* ------------------------------------------------------------------- C4
\* C4: once a session is Closed it stays Closed, no send is attempted on it
\* and nothing is delivered to it any more, whatever publish is in progress.
C4_NoSendAfterClosed ==
    [][\A s \in Sessions :
          state[s] = "Closed"
              => /\ state'[s] = "Closed"
                 /\ attempts'[s] = attempts[s]
                 /\ sent'[s] = sent[s]]_vars

\* A session of the snapshot is Closed while the publish has not yet
\* reached it.
C4_Witness ==
    \E i \in Calls : \E s \in Sessions :
        /\ InSnapshot(i, s) /\ ~Visited(i, s) /\ ~Returned(i)
        /\ state[s] = "Closed"

\* ------------------------------------------------------------------- C5
Present(reg, c) == TopicsOf(reg, c) # {}

C6_UnregisterIdempotent ==
    /\ regLog.op = "unregister"
          => /\ regLog.result = "ok"
             /\ ~Contains(regLog.before[regLog.group], regLog.chan)
                   => groups = regLog.before
             /\ regLog.streak >= 2 => groups = regLog.before
    /\ \A g \in Groups, c \in Sessions :
          GroupDiscard(GroupDiscard(groups, g, c), g, c) = GroupDiscard(groups, g, c)

\* unregister was repeated for a session id that is absent, with other
\* sessions registered.
C6_Witness ==
    /\ regLog.op = "unregister" /\ regLog.streak = 2
    /\ ~Contains(regLog.before[regLog.group], regLog.chan)
    /\ regLog.before[regLog.group] # <<>>

\* ------------------------------------------------------------------- C7

\* C7 (as stated): an ingest whose topic is empty or whose event type is
\* null is not answered with success.
C7_MalformedRejected ==
    (lastIngest.endpoint # None /\ Malformed(lastIngest.body))
        => lastIngest.status # HTTP_201_CREATED

\* ------------------------------------------------------------------- C8
\* The message a session's handler turns into the frame {type, data}.
Carries(r, msg, type, data) == HandlerFrame(r, msg) = [type |-> type, data |-> data]

\* C8 (as stated): a successful ingest of a well-formed event hands every
\* session that is Open on the event's topic a message whose frame has the
\* event's type and payload.
C8_IngestDelivers ==
    [][\A e \in Endpoints, b \in RawEvents :
          (Ingest(e, b) /\ ~Malformed(b))
              => \A s \in SubscribersOfTopic(b.topic, "Open") :
                    \E k \in 1..Len(inbox'[s]) :
                        Carries(route[s], inbox'[s][k], b.event_type, b.payload)]_vars

\* ------------------------------------------------------------------- C9
\* C9: an ingest of a well-formed event is answered with success, and it
\* queues nothing for, attempts no send on and delivers nothing to a
\* session of the event's topic that is Closed.
C9_ClosedSessionSilent ==
    [][\A e \in Endpoints, b \in RawEvents :
          (Ingest(e, b) /\ ~Malformed(b))
              => /\ lastIngest'.status = HTTP_201_CREATED
                 /\ \A s \in SubscribersOfTopic(b.topic, "Closed") :
                       /\ inbox'[s] = inbox[s]
                       /\ attempts'[s] = attempts[s]
                       /\ sent'[s] = sent[s]]_vars

\* A well-formed event was ingested with success after the only subscriber
\* of its topic had been closed.
C9_Witness ==
    /\ lastIngest.endpoint # None
    /\ ~Malformed(lastIngest.body)
    /\ lastIngest.status = HTTP_201_CREATED
    /\ lastIngest.closed # {}
    /\ \A s \in Sessions : route[s] = lastIngest.body.topic => s \in lastIngest.closed
    /\ \A s \in lastIngest.closed : sent[s] = attempts[s]

\* ------------------------------------------------------------------ C10
\* C10 (as stated): a session is in the registry under at most one topic,
\* and only while it is Open.
C10_OnlyWhileOpen ==
    \A s \in Sessions :
        /\ Cardinality(TopicsOf(groups, s)) <= 1
        /\ InRegistry(s) => state[s] = "Open"

\* C10 (amended): a session is in the registry under at most one topic, the
\* group of its own consumer; it is there while Open, it may be there while
\* still Connecting or already Closing, and it is never there while Closed
\* or before its connect() ran.
C10_OneTopicNeverClosed ==
    \A s \in Sessions :
        /\ Cardinality(TopicsOf(groups, s)) <= 1
        /\ InRegistry(s) => /\ state[s] \in {"Connecting", "Open", "Closing"}
                            /\ TopicsOf(groups, s) = {GroupName(route[s])}
        /\ state[s] = "Open" => InRegistry(s)

\* One session was closed and has left the registry while another is
\* registered without being Open.
C10_Witness ==
    \E s, t \in Sessions :
        /\ state[s] = "Closed" /\ ~InRegistry(s)
        /\ InRegistry(t) /\ state[t] \in {"Connecting", "Closing"}

\* ------------------------------------------------------------------ C11
\* C11: every event queued for a session, and every frame its handlers
\* sent or tried to send, comes from a publish to the topic the session
\* registered for.
C11_OwnTopicOnly ==
    \A s \in Sessions :
        /\ \A k \in 1..Len(inbox[s]) : pubs[inbox[s][k].data].group = group_name[s]
        /\ \A k \in 1..Len(attempts[s]) : pubs[attempts[s][k].data].group = group_name[s]

\* A session received a publish to its topic while a session Open on
\* another topic received nothing of it.
C11_Witness ==
    \E i \in Calls : \E s, t \in Sessions :
        /\ Returned(i) /\ HasEvent(sent[s], i)
        /\ state[t] = "Open" /\ route[t] # route[s]
        /\ inbox[t] = <<>> /\ attempts[t] = <<>>

\* ------------------------------------------------------------------ C12
\* C12: a well-formed ingest is answered with success and a publish that
\* has not returned can always go on to its next session, whatever sends
\* have failed.
C12_FailureNotPropagated ==
    /\ (lastIngest.endpoint # None /\ ~Malformed(lastIngest.body))
          => lastIngest.status = HTTP_201_CREATED
    /\ \A i \in Calls : ~Returned(i) => ENABLED PublishStep(i)

\* A publish has returned and a well-formed ingest was answered with
\* success although the send failed on every session of the snapshot.
C12_Witness ==
    /\ \E i \in Calls :
          /\ Returned(i) /\ pubs[i].snap # <<>>
          /\ \A s \in Sessions : InSnapshot(i, s) => FailedSend(i, s)
          /\ \E s \in Sessions : InSnapshot(i, s) /\ pc[s] = "crashed"
    /\ lastIngest.endpoint # None
    /\ ~Malformed(lastIngest.body)
    /\ lastIngest.status = HTTP_201_CREATED

\* ------------------------------------------------------------------ C13
LifecycleStep(s) == <<state[s], state'[s]>>

\* C13 (as stated): a session's state changes only along
\* Connecting -> Open -> Closing -> Closed, one state at a time.
C13_NoStateSkipped ==
    [][\A s \in Sessions :
          state'[s] # state[s]
              => LifecycleStep(s) \in {<<None, "Connecting">>,
                                       <<"Connecting", "Open">>,
                                       <<"Open", "Closing">>,
                                       <<"Closing", "Closed">>}]_vars

\* C13 (amended): a session's state never moves backwards, no state is
\* re-entered and Closed is final; the only state that can be skipped is
\* Open, by a session whose transport goes away before accept().
C13_ForwardOnly ==
    [][\A s \in Sessions :
          state'[s] # state[s]
              => LifecycleStep(s) \in {<<None, "Connecting">>,
                                       <<"Connecting", "Open">>,
                                       <<"Connecting", "Closing">>,
                                       <<"Open", "Closing">>,
                                       <<"Closing", "Closed">>}]_vars

\* One session went through Open to Closed; another was torn down while
\* Connecting, before its connect() reached accept().
C13_Witness ==
    \E s, t \in Sessions :
        /\ state[s] = "Closed" /\ sent[s] # <<>>
        /\ state[t] = "Closing" /\ pc[t] = "accept"

\* ------------------------------------------------------------------ C14
\* C14: for each publish call and each session at most one send is
\* attempted, whether it succeeded or failed.
C14_AtMostOneAttempt ==
    \A i \in Calls : \A s \in Sessions : Occurrences(attempts[s], i) <= 1

\* A send failed and was dropped; the consumer is still running and the
\* event is no longer queued.
C14_Witness ==
    \E i \in Calls : \E s \in Sessions :
        /\ FailedSend(i, s) /\ pc[s] = "idle"
        /\ ~HasEvent(inbox[s], i)

\* ------------------------------------------------------------------ C15
\* C15: a session that is not in the snapshot of a publish call is never
\* handed that call's event.
C15_NoReplay ==
    \A i \in Calls : \A s \in Sessions :
        ~InSnapshot(i, s)
            => /\ ~HasEvent(inbox[s], i)
               /\ ~HasEvent(attempts[s], i)

\* A session joined its topic after a publish to it, missed that event and
\* has received a later one.
C15_Witness ==
    \E i, j \in Calls : \E s \in Sessions :
        /\ i < j /\ pubs[i].group = group_name[s] /\ pubs[j].group = group_name[s]
        /\ Returned(i) /\ ~InSnapshot(i, s)
        /\ HasEvent(sent[s], j) /\ ~HasEvent(sent[s], i)

\* ------------------------------------------------------------------ C16
\* C16 (as stated): once the consumer of a session whose send failed has
\* ended, so that nothing of the session can run any more, the session has
\* left the registry.
C16_FailedSessionRemoved ==
    \A s \in Sessions :
        ((\E i \in Calls : FailedSend(i, s)) /\ pc[s] \in {"stopped", "crashed"})
            => ~InRegistry(s)

\* ------------------------------------------------------------------ C17
NoDuplicates(q) == \A a, b \in 1..Len(q) : q[a] = q[b] => a = b

\* C17: the snapshot of a publish call is the topic's membership at the
\* instant of the call, it never changes afterwards, and the sessions the
\* call visits are a prefix of it, whatever is registered or unregistered
\* meanwhile.
C17_SnapshotIsCopy ==
    [][\A i \in 1..Len(pubs') :
          /\ i \in Calls => pubs'[i].snap = pubs[i].snap
          /\ i \notin Calls => pubs'[i].snap = groups[pubs'[i].group]
          /\ NoDuplicates(pubs'[i].snap)
          /\ IsPrefix(pubs'[i].visited, pubs'[i].snap)]_vars

\* A publish is part way through its snapshot while the registry of its
\* topic has changed since the snapshot was taken.
C17_Witness ==
    \E i \in Calls :
        /\ ~Returned(i) /\ pubs[i].visited # <<>>
        /\ groups[pubs[i].group] # pubs[i].snap

\* ------------------------------------------------------------------ C18
\* C18: when two producers have published to one topic at the same time
\* and both calls have returned, a session of both snapshots that is Open
\* with nothing left in its queue has received each event exactly once.
C18_ConcurrentPublishes ==
    \A i, j \in Calls : \A s \in Sessions :
        (/\ i # j /\ pubs[i].prod # pubs[j].prod /\ pubs[i].group = pubs[j].group
         /\ Returned(i) /\ Returned(j)
         /\ InSnapshot(i, s) /\ InSnapshot(j, s)
         /\ state[s] = "Open" /\ inbox[s] = <<>>)
            => Occurrences(sent[s], i) = 1 /\ Occurrences(sent[s], j) = 1

\* A session has received the events of two concurrent publishes, the
\* later call's event first.
C18_Witness ==
    \E i, j \in Calls : \E s \in Sessions :
        /\ i < j /\ pubs[i].prod # pubs[j].prod
        /\ state[s] = "Open"
        /\ HasEvent(sent[s], i) /\ HasEvent(sent[s], j)
        /\ Pos(sent[s], j) < Pos(sent[s], i)

C20_RegistryFreeDuringSend ==
    \A s \in Sessions :
        pc[s] = "sending" =>
            /\ \A t \in Sessions :
                  /\ pc[t] = "connect" => ENABLED ConnectGroupAdd(t)
                  /\ (pc[t] = "idle" /\ state[t] = "Closing")
                         => ENABLED Disconnect(t)
            /\ Len(pubs) < MaxPub
                  => ENABLED (\E p \in Producers, g \in Groups : PublishStart(p, g))

\* While the send to one session is suspended, another connection is
\* about to join the same group and a producer can still publish.
C20_Witness ==
    \E s, t \in Sessions :
        /\ pc[s] = "sending" /\ state[s] = "Open"
        /\ pc[t] = "connect" /\ GroupName(route[t]) = group_name[s]
        /\ Len(pubs) < MaxPub

\* ------------------------------------------------------------------ C21
\* C21 (as stated, for the disconnected session): once the consumer of a
\* session that was disconnected with a send in flight has ended, the
\* session is Closed.
C21_DisconnectedSendEndsClosed ==
    \A s \in Sessions :
        (pc[s] \in {"stopped", "crashed"} /\ Len(attempts[s]) > Len(sent[s]))
            => state[s] = "Closed"

\* ------------------------------------------------------------------ C22
\* C22: a Closed session is absent from the registry, a session that is in
\* the registry is never a fresh connection about to register, and no
\* group holds a session twice.
C22_ClosedAfterUnregistered ==
    /\ \A s \in Sessions : state[s] = "Closed" => ~InRegistry(s)
    /\ \A s \in Sessions : InRegistry(s) => (state[s] # None /\ pc[s] # "connect")
    /\ \A g \in Groups : NoDuplicates(groups[g])

\* One session is Closed and gone from the registry while the consumer of
\* another has crashed and is still registered.
C22_Witness ==
    \E s, t \in Sessions :
        /\ state[s] = "Closed" /\ ~InRegistry(s) /\ sent[s] # <<>>
        /\ pc[t] = "crashed" /\ InRegistry(t)

\* ------------------------------------------------------------------ C23
\* C23: an ingest of a malformed event changes nothing of what is queued
\* for, attempted on or delivered to any session nor any publish call, and
\* an ingest of a well-formed event is answered with success whatever was
\* ingested before it.
C23_MalformedIngestIsLocal ==
    [][\A e \in Endpoints, b \in RawEvents :
          Ingest(e, b) =>
              /\ Malformed(b) => /\ inbox' = inbox /\ attempts' = attempts
                                 /\ sent' = sent /\ pubs' = pubs
              /\ ~Malformed(b) => lastIngest'.status = HTTP_201_CREATED]_vars

\* A malformed event was ingested while a publish was in progress and
\* frames had been delivered.
C23_Witness ==
    /\ lastIngest.endpoint # None /\ Malformed(lastIngest.body)
    /\ \E i \in Calls : ~Returned(i) /\ pubs[i].visited # <<>>
    /\ \E s \in Sessions : sent[s] # <<>>

\* ------------------------------------------------------------------ C24
\* C24 (as stated): an ingest starts exactly one publish call when the
\* event has a topic and an event type, and none otherwise.
C24_IngestPublishesOnce ==
    [][\A e \in Endpoints, b \in RawEvents :
          Ingest(e, b) =>
              IF Malformed(b) THEN pubs' = pubs
              ELSE Len(pubs') = Len(pubs) + 1]_vars

\* ------------------------------------------------------------------ C25
\* C25: a channel is never a member of a group other than the fixed group
\* of its consumer; connect() adds it to that group and touches no other
\* member, and disconnect() leaves it in no group and touches no other
\* member.
C25_OneFixedGroup ==
    [][\A s \in Sessions :
          /\ \A g \in TopicsOf(groups', s) : g = GroupName(route'[s])
          /\ ConnectGroupAdd(s) =>
                /\ TopicsOf(groups', s) = {GroupName(route[s])}
                /\ \A t \in Sessions \ {s} : TopicsOf(groups', t) = TopicsOf(groups, t)
          /\ Disconnect(s) =>
                /\ TopicsOf(groups', s) = {}
                /\ \A t \in Sessions \ {s} : TopicsOf(groups', t) = TopicsOf(groups, t)]_vars

\* A transactions channel and a training channel have each connected and
\* disconnected, and both groups are as they were before.
C25_Witness ==
    \E s, t \in Sessions :
        /\ route[s] = "transactions" /\ route[t] = "ml-training"
        /\ pc[s] = "stopped" /\ pc[t] = "stopped"
        /\ groups = EmptyRegistry

\* ------------------------------------------------------------------ C26
\* C26: every ingestion endpoint answers every body with 201 and changes
\* nothing else: no session, no group, no queue, no frame, no publish call.
C26_IngestOnlyAnswers ==
    [][\A e \in Endpoints, b \in RawEvents :
          Ingest(e, b) =>
              /\ lastIngest'.status = HTTP_201_CREATED
              /\ UNCHANGED <<state, pc, route, group_name, groups, inbox,
                             attempts, sent, pubs>>]_vars

\* The metrics endpoint has answered a body without an event type with 201
\* while a session was open on the body's topic.
C26_Witness ==
    /\ lastIngest.endpoint = "ingest_metrics"
    /\ lastIngest.body.event_type = Null
    /\ lastIngest.status = HTTP_201_CREATED
    /\ SubscribersOfTopic(lastIngest.body.topic, "Open") # {}

\* ------------------------------------------------------------------ C27
StepNames == [i \in 1..Len(steps) |-> steps[i].step]

MainOrder == <<"postgresql", "redis", "migrate", "superuser", "completed">>

\* C27: main enters its steps in the order PostgreSQL, Redis, migrations,
\* superuser; whatever PostgreSQL and Redis report the run goes on to the
\* next step and never ends before migrations; a failed migration makes
\* main return False with no superuser step.
C27_FixedOrder ==
    /\ IsPrefix(StepNames, MainOrder)
    /\ Len(steps) < 3 => (mainPc = MainOrder[Len(steps) + 1] /\ result = None)
    /\ (Len(steps) >= 3 /\ steps[3].reported = "failed")
           => (result = "False" /\ Len(steps) = 3)

\* PostgreSQL setup and Redis setup both reported a failure, migrations
\* ran all the same and failed, and main returned False.
C27_Witness ==
    /\ Len(steps) = 3
    /\ steps[1].reported = "failed" /\ steps[2].reported = "failed"
    /\ steps[3].step = "migrate" /\ steps[3].reported = "failed"
    /\ result = "False"

\* ------------------------------------------------------------------ C28
\* C28 (as stated): a run that has ended after migrations succeeded has
\* handed createsuperuser to run_command and has reached "Setup completed".
C28_ReachesCompleted ==
    (result # None /\ Len(steps) >= 3 /\ steps[3].reported = "ok")
        => /\ \E k \in 1..Len(commands) : commands[k].cmd = "createsuperuser"
           /\ steps[Len(steps)].step = "completed"

\* ------------------------------------------------------------------ C29
\* C29: no step replaces a key that is set, and the key written by every
\* save of an object is the same non-empty key, the one the object holds.
C29_KeyNeverReplaced ==
    [][\A o \in Objects :
          /\ key[o] \notin {None, ""} => key'[o] = key[o]
          /\ \A k \in 1..Len(stored'[o]) :
                stored'[o][k] = key'[o] /\ stored'[o][k] # ""]_vars

\* One object was created without a key and saved twice, another was
\* created with a key of the caller and saved twice.
C29_Witness ==
    \E o, c \in Objects :
        /\ Len(stored[o]) = 2 /\ key[o] \in Tokens
        /\ Len(stored[c]) = 2 /\ key[c] \in CallerKeys

\* ------------------------------------------------------------------ C30
\* C30 (as stated): whenever both properties have been read, is_over_limit
\* is true exactly when usage_percent is greater than 100.
C30_OverLimitIffOver100 ==
    usage_percent # NotRead => (is_over_limit <=> GreaterThan(usage_percent, 100))

====
